---- MODULE Spec2Model ----
(***************************************************************************)
(* Model of the snow bootstrap pipeline (src/snow/src/main.rs and          *)
(* src/snow/src/mount.rs): image lookup, mount-namespace isolation, loop   *)
(* device attach, overlay assembly, environment wiring, root switch, exec. *)
(* Every kernel call of the source is one step; its outcome (success or    *)
(* failure) is chosen by the environment.                                  *)
(***************************************************************************)
EXTENDS Integers, Sequences, FiniteSets, TLC

VARIABLES
    pc,               \* position of main(): the next call to be made
    exe,              \* section table of the running executable on disk
    squashfs_offset,  \* main.rs:133  Option<u64>
    unshared,         \* the process left the host's mount namespace
    private,          \* "/" was remounted MS_PRIVATE | MS_REC
    loop_control,     \* main.rs:67   /dev/loop-control is open
    loop_device,      \* main.rs:68   Option<[file, offset, read_only, attached]>
    loop_device_path, \* main.rs:141  Option<path>
    mounts,           \* mount table of the process's mount namespace
    hostMounts,       \* mount table seen by a process in the host namespace
    dirs,             \* directories created by mkdir, with the filesystem they landed on
    ops,              \* every kernel operation issued so far, in order, with its outcome
    warnings,         \* warn!() records of mount.rs:121
    idx,              \* loop position in the two for-loops of mount.rs
    root,             \* Option<path>: new root after pivot_root (None: still the host root)
    put_old_at,       \* Option<path>: where the old root was placed by pivot_root
    cwd,              \* Option<path>: working directory set by chdir (None: inherited)
    args,             \* the arguments the process was invoked with (std::env::args())
    rejectable,       \* optional filesystem types whose mount this host's kernel may reject
    exec_call,        \* Option<[path, argv, env]>: what was handed to execve
    exitCode,         \* Option<int>: exit status of the bootstrapper
    reaped            \* the process has exited and the kernel has released what it held

vars == <<pc, exe, squashfs_offset, unshared, private, loop_control, loop_device,
          loop_device_path, mounts, hostMounts, dirs, ops, warnings, idx, root,
          put_old_at, cwd, args, rejectable, exec_call, exitCode, reaped>>

----------------------------------------------------------------------------
(* Bounds of the model. *)

\* longest section table of an executable that is explored
MaxSections == 2
\* section addresses and file offsets range over 1..MaxAddr
MaxAddr == 2
\* longest argument list of an invocation that is explored
MaxArgs == 2

----------------------------------------------------------------------------
(* Option<T>, paths, flags. *)

None == <<>>
Some(x) == <<x>>
IsSome(o) == o # <<>>
Unwrap(o) == o[1]

\* A path is the sequence of its components; an absolute path starts with "/".
\* PathBuf::join: an absolute argument replaces the base.
Join(base, rel) == IF rel # <<>> /\ rel[1] = "/" THEN rel ELSE base \o rel

IsPrefix(p, q) == Len(p) <= Len(q) /\ SubSeq(q, 1, Len(p)) = p

useless_dir == <<"/", "proc", "self", "fd">>
self_exe == <<"/", "proc", "self", "exe">>
rootfs_dir == Join(useless_dir, <<"merged">>)

\* Exit statuses of the Rust runtime: main returning Err, and a panic.
ExitErr == 1
ExitPanic == 101

----------------------------------------------------------------------------
(* The executable on disk: its section table, as goblin's Elf::parse and   *)
(* shdr_strtab.get_at present it.  name is None when the string table has  *)
(* no entry at sh_name.                                                    *)

SectionNames == {Some(".text"), Some(".squashfs"), None}

Sections == [name : SectionNames, sh_addr : 1..MaxAddr, sh_offset : 1..MaxAddr]

RECURSIVE SeqsUpTo(_, _)
SeqsUpTo(S, n) ==
    IF n = 0 THEN {<<>>}
    ELSE LET shorter == SeqsUpTo(S, n - 1)
         IN  shorter \cup {Append(q, x) : q \in {r \in shorter : Len(r) = n - 1}, x \in S}

ExeFiles == SeqsUpTo(Sections, MaxSections)

\* main.rs:46-56: the for loop over elf.section_headers, from section i on.
\* "Panic" is the .expect of main.rs:50.
RECURSIVE FindSection(_, _)
FindSection(section_headers, i) ==
    IF i > Len(section_headers) THEN [tag |-> "Ok", val |-> None]
    ELSE IF section_headers[i].name = None THEN [tag |-> "Panic", val |-> None]
    ELSE IF Unwrap(section_headers[i].name) = ".squashfs"
         THEN [tag |-> "Ok", val |-> Some(section_headers[i].sh_addr)]
    ELSE FindSection(section_headers, i + 1)

get_squashfs_section_address(file) == FindSection(file, 1)

\* The executables the whole pipeline is explored with: every executable
\* within the bounds on which the lookup yields no offset, and one that holds
\* the image section (stored at a file offset that differs from its virtual
\* address, as for any section outside the first segment).
PipelineExes ==
    {file \in ExeFiles : get_squashfs_section_address(file).val = None}
    \cup { << [name |-> Some(".text"), sh_addr |-> 1, sh_offset |-> 1],
              [name |-> Some(".squashfs"), sh_addr |-> 2, sh_offset |-> 1] >> }

----------------------------------------------------------------------------
(* Kernel operations: what is logged, and what a successful call changes.  *)

SysOp(call, source, target, fstype, flags, data, ok) ==
    [call |-> call, source |-> source, target |-> target, fstype |-> fstype,
     flags |-> flags, data |-> data, ok |-> ok]

Call(call, target, ok) == SysOp(call, None, target, None, {}, None, ok)

MountEntry(source, target, fstype, flags, data) ==
    [source |-> source, target |-> target, fstype |-> fstype, flags |-> flags,
     data |-> data]

\* The mount table of the host before the run.
HostInitial ==
    { MountEntry(Some(<<"/", "dev", "sda1">>), <<"/">>, Some("ext4"), {}, None),
      MountEntry(Some(<<"proc">>), <<"/", "proc">>, Some("proc"), {}, None),
      MountEntry(Some(<<"devtmpfs">>), <<"/", "dev">>, Some("devtmpfs"), {}, None) }

\* A mount made by the process shows in the host's table unless the process
\* has its own mount namespace whose tree is private.
Propagates == ~unshared \/ ~private

Remounted(table, target, flags) ==
    { IF m.target = target
      THEN [m EXCEPT !.flags = (m.flags \cup flags) \ {"MS_REMOUNT"}]
      ELSE m : m \in table }

\* nix::mount::mount(source, target, fstype, flags, data) with outcome ok.
mount(source, target, fstype, flags, data, ok) ==
    /\ ops' = Append(ops, SysOp("mount", source, target, fstype, flags, data, ok))
    /\ IF ~ok THEN UNCHANGED <<mounts, hostMounts, private>>
       ELSE IF "MS_PRIVATE" \in flags
       THEN /\ private' = TRUE
            /\ UNCHANGED <<mounts, hostMounts>>
       ELSE IF "MS_REMOUNT" \in flags
       THEN /\ mounts' = Remounted(mounts, target, flags)
            /\ hostMounts' = IF Propagates THEN Remounted(hostMounts, target, flags)
                             ELSE hostMounts
            /\ UNCHANGED private
       ELSE LET m == MountEntry(source, target, fstype, flags, data)
            IN  /\ mounts' = mounts \cup {m}
                /\ hostMounts' = IF Propagates THEN hostMounts \cup {m} ELSE hostMounts
                /\ UNCHANGED private

\* The mount a path lies on: the one with the longest target that is a prefix.
CoveringMount(table, path) ==
    LET above == {m \in table : IsPrefix(m.target, path)}
    IN  CHOOSE m \in above : \A n \in above : Len(n.target) <= Len(m.target)

\* nix::unistd::mkdir(path, S_IRWXU) with outcome ok.
mkdir(path, ok) ==
    /\ ops' = Append(ops, Call("mkdir", path, ok))
    /\ dirs' = IF ok THEN dirs \cup {[path |-> path, on |-> CoveringMount(mounts, path)]}
               ELSE dirs

\* main returns Err (anyhow `?`), or a panic unwinds: the process exits.
Abort(code) ==
    /\ pc' = "aborted"
    /\ exitCode' = Some(code)

Goto(next) ==
    /\ pc' = next
    /\ UNCHANGED exitCode

\* The error of a call dropped instead of returned.
Try_Unchecked(ok, next) == Goto(next)

\* `call?; next`: continue on success, return the error otherwise.
Try(ok, next) == IF ok THEN Goto(next) ELSE Abort(ExitErr)

----------------------------------------------------------------------------
(* Inputs of a run: the executable, the invocation, the host's kernel.     *)

\* An argument is its bytes.  The arguments explored: "a", "-c", and an
\* argument that is not valid Unicode.
ArgStrings == { <<97>>, <<45, 99>>, <<255>> }

Invocations == SeqsUpTo(ArgStrings, MaxArgs)

\* The invocation the whole pipeline is explored with: a -c
PipelineInvocations == { << <<97>>, <<45, 99>> >> }

\* The optional filesystem types (mount.rs:91-104).
NonEssentialTypes ==
    {"mqueue", "cgroup2", "bpf", "configfs", "tracefs", "efivarfs", "securityfs",
     "pstore", "hugetlbfs", "binfmt_misc", "fusectl", "debugfs"}

(* Initial state: the process has just started.                            *)

InitWith(files, invocations, kernels) ==
    /\ pc = "get_squashfs_section_address"
    /\ exe \in files
    /\ args \in invocations
    /\ rejectable \in kernels
    /\ squashfs_offset = None
    /\ unshared = FALSE
    /\ private = FALSE
    /\ loop_control = FALSE
    /\ loop_device = None
    /\ loop_device_path = None
    /\ mounts = HostInitial
    /\ hostMounts = HostInitial
    /\ dirs = {}
    /\ ops = <<>>
    /\ warnings = <<>>
    /\ idx = 1
    /\ root = None
    /\ put_old_at = None
    /\ cwd = None
    /\ exec_call = None
    /\ exitCode = None
    /\ reaped = FALSE

\* The whole pipeline, on a host whose kernel may reject any of the optional
\* filesystems.
Init == InitWith(PipelineExes, PipelineInvocations, {NonEssentialTypes})

\* Every executable within the bounds.
InitLocator == InitWith(ExeFiles, PipelineInvocations, {NonEssentialTypes})

\* Every invocation within the bounds, on a host whose kernel has every
\* optional filesystem but, possibly, efivarfs.
InitReplacer == InitWith(PipelineExes, Invocations, {{"efivarfs"}})

----------------------------------------------------------------------------
(* main.rs:133  get_squashfs_section_address()?.expect(..)                  *)

\* unwrap_or(0) in place of expect: a missing section yields offset 0.
LocateImage_DefaultOffset ==
    /\ pc = "get_squashfs_section_address"
    /\ \E ok \in BOOLEAN :
        LET found == get_squashfs_section_address(exe)
        IN  /\ ops' = Append(ops, Call("read", self_exe, ok))
            /\ IF ~ok THEN Abort(ExitErr) /\ UNCHANGED squashfs_offset
               ELSE IF found.tag = "Panic"
               THEN Abort(ExitPanic) /\ UNCHANGED squashfs_offset
               ELSE /\ Goto("unshare")
                    /\ squashfs_offset' = IF found.val = None THEN Some(0) ELSE found.val
    /\ UNCHANGED <<reaped, exe, args, rejectable, unshared, private, loop_control, loop_device, loop_device_path,
                   mounts, hostMounts, dirs, warnings, idx, root, put_old_at, cwd, exec_call>>

LocateImage ==
    /\ pc = "get_squashfs_section_address"
    /\ \E ok \in BOOLEAN :
        LET found == get_squashfs_section_address(exe)
        IN  /\ ops' = Append(ops, Call("read", self_exe, ok))
            /\ IF ~ok THEN Abort(ExitErr) /\ UNCHANGED squashfs_offset
               ELSE IF found.tag = "Panic" \/ found.val = None
               THEN Abort(ExitPanic) /\ UNCHANGED squashfs_offset
               ELSE Goto("unshare") /\ squashfs_offset' = found.val
    /\ UNCHANGED <<reaped, exe, args, rejectable, unshared, private, loop_control, loop_device, loop_device_path,
                   mounts, hostMounts, dirs, warnings, idx, root, put_old_at, cwd, exec_call>>

(* main.rs:59-64  enter_new_mount_ns *)

\* unshare called with a flag other than CLONE_NEWNS: the call succeeds and
\* the process stays in the host's mount namespace.
Unshare_WithoutNewns ==
    /\ pc = "unshare"
    /\ \E ok \in BOOLEAN :
        /\ ops' = Append(ops, Call("unshare", <<"CLONE_FS">>, ok))
        /\ Try(ok, "make_private")
    /\ UNCHANGED <<reaped, exe, args, rejectable, squashfs_offset, unshared, private, loop_control, loop_device,
                   loop_device_path, mounts, hostMounts, dirs, warnings, idx, root,
                   put_old_at, cwd, exec_call>>

Unshare ==
    /\ pc = "unshare"
    /\ \E ok \in BOOLEAN :
        /\ ops' = Append(ops, Call("unshare", <<"CLONE_NEWNS">>, ok))
        /\ unshared' = ok
        /\ Try(ok, "make_private")
    /\ UNCHANGED <<reaped, exe, args, rejectable, squashfs_offset, private, loop_control, loop_device,
                   loop_device_path, mounts, hostMounts, dirs, warnings, idx, root,
                   put_old_at, cwd, exec_call>>

\* The result of the private remount dropped: the pipeline goes on either way.
MakePrivate_Unchecked ==
    /\ pc = "make_private"
    /\ \E ok \in BOOLEAN :
        /\ mount(None, <<"/">>, None, {"MS_PRIVATE", "MS_REC"}, None, ok)
        /\ Goto("loop_control_open")
    /\ UNCHANGED <<reaped, exe, args, rejectable, squashfs_offset, unshared, loop_control, loop_device,
                   loop_device_path, dirs, warnings, idx, root, put_old_at, cwd, exec_call>>

MakePrivate ==
    /\ pc = "make_private"
    /\ \E ok \in BOOLEAN :
        /\ mount(None, <<"/">>, None, {"MS_PRIVATE", "MS_REC"}, None, ok)
        /\ Try(ok, "loop_control_open")
    /\ UNCHANGED <<reaped, exe, args, rejectable, squashfs_offset, unshared, loop_control, loop_device,
                   loop_device_path, dirs, warnings, idx, root, put_old_at, cwd, exec_call>>

(* main.rs:66-77  create_loop_device("/proc/self/exe", squashfs_offset) *)

LoopControlOpen ==
    /\ pc = "loop_control_open"
    /\ \E ok \in BOOLEAN :
        /\ ops' = Append(ops, Call("open", <<"/", "dev", "loop-control">>, ok))
        /\ loop_control' = ok
        /\ Try(ok, "next_free")
    /\ UNCHANGED <<reaped, exe, args, rejectable, squashfs_offset, unshared, private, loop_device,
                   loop_device_path, mounts, hostMounts, dirs, warnings, idx, root,
                   put_old_at, cwd, exec_call>>

NextFree ==
    /\ pc = "next_free"
    /\ \E ok \in BOOLEAN :
        /\ ops' = Append(ops, Call("loop_ctl_get_free", <<"/", "dev", "loop-control">>, ok))
        /\ loop_device' = IF ok THEN Some([attached |-> FALSE, file |-> None,
                                           offset |-> 0, read_only |-> FALSE,
                                           autoclear |-> FALSE])
                          ELSE loop_device
        /\ Try(ok, "attach")
    /\ UNCHANGED <<reaped, exe, args, rejectable, squashfs_offset, unshared, private, loop_control,
                   loop_device_path, mounts, hostMounts, dirs, warnings, idx, root,
                   put_old_at, cwd, exec_call>>

Attach ==
    /\ pc = "attach"
    /\ \E ok \in BOOLEAN :
        /\ ops' = Append(ops, Call("loop_attach", self_exe, ok))
        /\ loop_device' = IF ok THEN Some([attached |-> TRUE, file |-> Some(self_exe),
                                           offset |-> Unwrap(squashfs_offset),
                                           read_only |-> TRUE,
                                           autoclear |-> FALSE])
                          ELSE loop_device
        /\ Try(ok, "loop_device_path")
    /\ UNCHANGED <<reaped, exe, args, rejectable, squashfs_offset, unshared, private, loop_control,
                   loop_device_path, mounts, hostMounts, dirs, warnings, idx, root,
                   put_old_at, cwd, exec_call>>

(* main.rs:141-143  loop_device.path().expect(..): readlink of the device's fd *)

LoopDevicePath ==
    /\ pc = "loop_device_path"
    /\ \E ok \in BOOLEAN :
        /\ ops' = Append(ops, Call("readlink", <<"/", "proc", "self", "fd", "loop">>, ok))
        /\ loop_device_path' = IF ok THEN Some(<<"/", "dev", "loop0">>) ELSE None
        /\ IF ok THEN Goto("tmpfs") ELSE Abort(ExitPanic)
    /\ UNCHANGED <<reaped, exe, args, rejectable, squashfs_offset, unshared, private, loop_control, loop_device,
                   mounts, hostMounts, dirs, warnings, idx, root, put_old_at, cwd, exec_call>>

(* main.rs:147, mount.rs:7-20  mount::tmpfs(useless_dir) *)

tmpfs_options == << [key |-> "mode", val |-> <<"1777">>] >>

\* The tmpfs mount tried again after a failure.
Tmpfs_Retried ==
    /\ pc = "tmpfs"
    /\ \E ok \in BOOLEAN :
        /\ mount(Some(<<"tmpfs">>), useless_dir, Some("tmpfs"), {}, Some(tmpfs_options), ok)
        /\ IF ok THEN Goto("create_overlayfs_directories") ELSE Goto("tmpfs")
    /\ UNCHANGED <<reaped, exe, args, rejectable, squashfs_offset, unshared, loop_control, loop_device,
                   loop_device_path, dirs, warnings, idx, root, put_old_at, cwd, exec_call>>

\* The result of the tmpfs mount dropped.
Tmpfs_Unchecked ==
    /\ pc = "tmpfs"
    /\ \E ok \in BOOLEAN :
        /\ mount(Some(<<"tmpfs">>), useless_dir, Some("tmpfs"), {}, Some(tmpfs_options), ok)
        /\ Goto("create_overlayfs_directories")
    /\ UNCHANGED <<reaped, exe, args, rejectable, squashfs_offset, unshared, loop_control, loop_device,
                   loop_device_path, dirs, warnings, idx, root, put_old_at, cwd, exec_call>>

Tmpfs ==
    /\ pc = "tmpfs"
    /\ \E ok \in BOOLEAN :
        /\ mount(Some(<<"tmpfs">>), useless_dir, Some("tmpfs"), {}, Some(tmpfs_options), ok)
        /\ Try(ok, "create_overlayfs_directories")
    /\ UNCHANGED <<reaped, exe, args, rejectable, squashfs_offset, unshared, loop_control, loop_device,
                   loop_device_path, dirs, warnings, idx, root, put_old_at, cwd, exec_call>>

(* main.rs:153, main.rs:79-86  create_overlayfs_directories(useless_dir) *)

\* The list without merged.
overlayfs_directories_NoMerged == << <<"lower">>, <<"work">>, <<"upper">> >>

overlayfs_directories == << <<"lower">>, <<"work">>, <<"upper">>, <<"merged">> >>

CreateOverlayfsDirectories ==
    /\ pc = "create_overlayfs_directories"
    /\ \E ok \in BOOLEAN :
        /\ mkdir(Join(useless_dir, overlayfs_directories[idx]), ok)
        /\ IF ok /\ idx < Len(overlayfs_directories)
           THEN idx' = idx + 1 /\ Goto("create_overlayfs_directories")
           ELSE idx' = 1 /\ Try(ok, "squashfs")
    /\ UNCHANGED <<reaped, exe, args, rejectable, squashfs_offset, unshared, private, loop_control, loop_device,
                   loop_device_path, mounts, hostMounts, warnings, root, put_old_at,
                   cwd, exec_call>>

(* main.rs:159, mount.rs:22-32  mount::squashfs(loop_device_path, useless_dir/lower) *)

\* The squashfs mounted without MS_RDONLY.
Squashfs_Writable ==
    /\ pc = "squashfs"
    /\ \E ok \in BOOLEAN :
        /\ mount(Some(Unwrap(loop_device_path)), Join(useless_dir, <<"lower">>),
                 Some("squashfs"), {}, None, ok)
        /\ Try(ok, "overlayfs")
    /\ UNCHANGED <<reaped, exe, args, rejectable, squashfs_offset, unshared, loop_control, loop_device,
                   loop_device_path, dirs, warnings, idx, root, put_old_at, cwd, exec_call>>

Squashfs ==
    /\ pc = "squashfs"
    /\ \E ok \in BOOLEAN :
        /\ mount(Some(Unwrap(loop_device_path)), Join(useless_dir, <<"lower">>),
                 Some("squashfs"), {"MS_RDONLY"}, None, ok)
        /\ Try(ok, "overlayfs")
    /\ UNCHANGED <<reaped, exe, args, rejectable, squashfs_offset, unshared, loop_control, loop_device,
                   loop_device_path, dirs, warnings, idx, root, put_old_at, cwd, exec_call>>

(* main.rs:162, mount.rs:34-51  mount::overlayfs(useless_dir) *)

\* The options with the upper and the work directory exchanged.
overlayfs_options_Swapped(target) ==
    << [key |-> "lowerdir", val |-> Join(target, <<"lower">>)],
       [key |-> "upperdir", val |-> Join(target, <<"work">>)],
       [key |-> "workdir", val |-> Join(target, <<"upper">>)],
       [key |-> "xino", val |-> <<"off">>] >>

overlayfs_options(target) ==
    << [key |-> "lowerdir", val |-> Join(target, <<"lower">>)],
       [key |-> "upperdir", val |-> Join(target, <<"upper">>)],
       [key |-> "workdir", val |-> Join(target, <<"work">>)],
       [key |-> "xino", val |-> <<"off">>] >>

\* The overlay mounted on the base directory instead of base/merged.
Overlayfs_AtBase ==
    /\ pc = "overlayfs"
    /\ \E ok \in BOOLEAN :
        /\ mount(Some(<<"overlay">>), useless_dir, Some("overlay"),
                 {}, Some(overlayfs_options(useless_dir)), ok)
        /\ Try(ok, "essential_system_filesystems")
    /\ UNCHANGED <<reaped, exe, args, rejectable, squashfs_offset, unshared, loop_control, loop_device,
                   loop_device_path, dirs, warnings, idx, root, put_old_at, cwd, exec_call>>

Overlayfs ==
    /\ pc = "overlayfs"
    /\ \E ok \in BOOLEAN :
        /\ mount(Some(<<"overlay">>), Join(useless_dir, <<"merged">>), Some("overlay"),
                 {}, Some(overlayfs_options(useless_dir)), ok)
        /\ Try(ok, "essential_system_filesystems")
    /\ UNCHANGED <<reaped, exe, args, rejectable, squashfs_offset, unshared, loop_control, loop_device,
                   loop_device_path, dirs, warnings, idx, root, put_old_at, cwd, exec_call>>

(* main.rs:170, mount.rs:53-87  mount::essential_system_filesystems(rootfs_dir) *)

\* devpts mounted before the bind of /dev.
essential_filesystems_DevptsFirst(target) ==
    << [source |-> Some(<<"proc">>), target |-> Join(target, <<"proc">>),
        fstype |-> Some("proc"), flags |-> {}],
       [source |-> Some(<<"sysfs">>), target |-> Join(target, <<"sys">>),
        fstype |-> Some("sysfs"), flags |-> {}],
       [source |-> Some(<<"devpts">>), target |-> Join(target, <<"dev", "pts">>),
        fstype |-> Some("devpts"), flags |-> {}],
       [source |-> Some(<<"/", "dev">>), target |-> Join(target, <<"dev">>),
        fstype |-> None, flags |-> {"MS_BIND"}] >>

essential_filesystems(target) ==
    << [source |-> Some(<<"proc">>), target |-> Join(target, <<"proc">>),
        fstype |-> Some("proc"), flags |-> {}],
       [source |-> Some(<<"sysfs">>), target |-> Join(target, <<"sys">>),
        fstype |-> Some("sysfs"), flags |-> {}],
       [source |-> Some(<<"/", "dev">>), target |-> Join(target, <<"dev">>),
        fstype |-> None, flags |-> {"MS_BIND"}],
       [source |-> Some(<<"devpts">>), target |-> Join(target, <<"dev", "pts">>),
        fstype |-> Some("devpts"), flags |-> {}] >>

EssentialSystemFilesystems ==
    /\ pc = "essential_system_filesystems"
    /\ \E ok \in BOOLEAN :
        LET m == essential_filesystems(rootfs_dir)[idx]
        IN  /\ mount(m.source, m.target, m.fstype, m.flags, None, ok)
            /\ IF ok /\ idx < Len(essential_filesystems(rootfs_dir))
               THEN idx' = idx + 1 /\ Goto("essential_system_filesystems")
               ELSE idx' = 1 /\ Try(ok, "non_essential_system_filesystems")
    /\ UNCHANGED <<reaped, exe, args, rejectable, squashfs_offset, unshared, loop_control, loop_device,
                   loop_device_path, dirs, warnings, root, put_old_at, cwd,
                   exec_call>>

(* main.rs:176, mount.rs:89-132  mount::non_essential_system_filesystems(rootfs_dir) *)

\* The list without its last entry, debugfs.
fstypes_and_mountpoints_NoDebugfs(target) ==
    << [fstype |-> "mqueue", mountpoint |-> Join(target, <<"dev", "mqueue">>)],
       [fstype |-> "cgroup2", mountpoint |-> Join(target, <<"sys", "fs", "cgroup">>)],
       [fstype |-> "bpf", mountpoint |-> Join(target, <<"sys", "fs", "bpf">>)],
       [fstype |-> "configfs", mountpoint |-> Join(target, <<"sys", "kernel", "config">>)],
       [fstype |-> "tracefs", mountpoint |-> Join(target, <<"sys", "kernel", "tracing">>)],
       [fstype |-> "efivarfs",
        mountpoint |-> Join(target, <<"sys", "firmware", "efi", "efivars">>)],
       [fstype |-> "securityfs", mountpoint |-> Join(target, <<"sys", "kernel", "security">>)],
       [fstype |-> "pstore", mountpoint |-> Join(target, <<"sys", "fs", "pstore">>)],
       [fstype |-> "hugetlbfs", mountpoint |-> Join(target, <<"dev", "hugepages">>)],
       [fstype |-> "binfmt_misc",
        mountpoint |-> Join(target, <<"proc", "sys", "fs", "binfmt_misc">>)],
       [fstype |-> "fusectl",
        mountpoint |-> Join(target, <<"sys", "fs", "fuse", "connections">>)] >>

fstypes_and_mountpoints(target) ==
    << [fstype |-> "mqueue", mountpoint |-> Join(target, <<"dev", "mqueue">>)],
       [fstype |-> "cgroup2", mountpoint |-> Join(target, <<"sys", "fs", "cgroup">>)],
       [fstype |-> "bpf", mountpoint |-> Join(target, <<"sys", "fs", "bpf">>)],
       [fstype |-> "configfs", mountpoint |-> Join(target, <<"sys", "kernel", "config">>)],
       [fstype |-> "tracefs", mountpoint |-> Join(target, <<"sys", "kernel", "tracing">>)],
       [fstype |-> "efivarfs",
        mountpoint |-> Join(target, <<"sys", "firmware", "efi", "efivars">>)],
       [fstype |-> "securityfs", mountpoint |-> Join(target, <<"sys", "kernel", "security">>)],
       [fstype |-> "pstore", mountpoint |-> Join(target, <<"sys", "fs", "pstore">>)],
       [fstype |-> "hugetlbfs", mountpoint |-> Join(target, <<"dev", "hugepages">>)],
       [fstype |-> "binfmt_misc",
        mountpoint |-> Join(target, <<"proc", "sys", "fs", "binfmt_misc">>)],
       [fstype |-> "fusectl",
        mountpoint |-> Join(target, <<"sys", "fs", "fuse", "connections">>)],
       [fstype |-> "debugfs", mountpoint |-> Join(target, <<"sys", "kernel", "debug">>)] >>

\* The optional mount's error returned with `?` instead of logged.
OnNonEssentialResult_Fatal(ok, next) ==
    IF ~ok THEN idx' = idx /\ Abort(ExitErr)
    ELSE IF idx < Len(fstypes_and_mountpoints(rootfs_dir))
    THEN idx' = idx + 1 /\ Goto("non_essential_system_filesystems")
    ELSE idx' = 1 /\ Goto(next)

\* mount.rs:116-128: what the match does with the mount's result.
OnNonEssentialResult(ok, next) ==
    IF idx < Len(fstypes_and_mountpoints(rootfs_dir))
    THEN idx' = idx + 1 /\ Goto("non_essential_system_filesystems")
    ELSE idx' = 1 /\ Goto(next)

\* The failure of an optional mount logged below the warning level.
NonEssentialSystemFilesystems_Silent ==
    /\ pc = "non_essential_system_filesystems"
    /\ LET fs == fstypes_and_mountpoints(rootfs_dir)[idx]
       IN  \E ok \in (IF fs.fstype \in rejectable THEN BOOLEAN ELSE {TRUE}) :
            /\ mount(Some(<<fs.fstype>>), fs.mountpoint, Some(fs.fstype), {}, None, ok)
            /\ warnings' = warnings
            /\ OnNonEssentialResult(ok, "network_configuration_bind")
    /\ UNCHANGED <<reaped, exe, args, rejectable, squashfs_offset, unshared, loop_control, loop_device,
                   loop_device_path, dirs, root, put_old_at, cwd, exec_call>>

NonEssentialSystemFilesystems ==
    /\ pc = "non_essential_system_filesystems"
    /\ LET fs == fstypes_and_mountpoints(rootfs_dir)[idx]
       IN  \E ok \in (IF fs.fstype \in rejectable THEN BOOLEAN ELSE {TRUE}) :
            /\ mount(Some(<<fs.fstype>>), fs.mountpoint, Some(fs.fstype), {}, None, ok)
            /\ warnings' = IF ok THEN warnings
                           ELSE Append(warnings, [fstype |-> fs.fstype,
                                                  mountpoint |-> fs.mountpoint])
            /\ OnNonEssentialResult(ok, "network_configuration_bind")
    /\ UNCHANGED <<reaped, exe, args, rejectable, squashfs_offset, unshared, loop_control, loop_device,
                   loop_device_path, dirs, root, put_old_at, cwd, exec_call>>

(* main.rs:182, mount.rs:134-156  mount::network_configuration(rootfs_dir) *)

network_configuration_files ==
    << <<"etc", "resolv.conf">>, <<"etc", "hostname">>, <<"etc", "hosts">> >>

NetworkConfigurationBind ==
    /\ pc = "network_configuration_bind"
    /\ \E ok \in BOOLEAN :
        LET file == network_configuration_files[idx]
        IN  /\ mount(Some(Join(<<"/">>, file)), Join(rootfs_dir, file), None,
                     {"MS_BIND"}, None, ok)
            /\ Try(ok, "network_configuration_remount")
    /\ UNCHANGED <<reaped, exe, args, rejectable, squashfs_offset, unshared, loop_control, loop_device,
                   loop_device_path, dirs, warnings, idx, root, put_old_at, cwd, exec_call>>

\* The remount issued without MS_RDONLY.
NetworkConfigurationRemount_NoRdonly ==
    /\ pc = "network_configuration_remount"
    /\ \E ok \in BOOLEAN :
        LET file == network_configuration_files[idx]
        IN  /\ mount(None, Join(rootfs_dir, file), None,
                     {"MS_REMOUNT", "MS_BIND"}, None, ok)
            /\ IF ok /\ idx < Len(network_configuration_files)
               THEN idx' = idx + 1 /\ Goto("network_configuration_bind")
               ELSE idx' = 1 /\ Try(ok, "mkdir_put_old")
    /\ UNCHANGED <<reaped, exe, args, rejectable, squashfs_offset, unshared, loop_control, loop_device,
                   loop_device_path, dirs, warnings, root, put_old_at, cwd,
                   exec_call>>

NetworkConfigurationRemount ==
    /\ pc = "network_configuration_remount"
    /\ \E ok \in BOOLEAN :
        LET file == network_configuration_files[idx]
        IN  /\ mount(None, Join(rootfs_dir, file), None,
                     {"MS_REMOUNT", "MS_BIND", "MS_RDONLY"}, None, ok)
            /\ IF ok /\ idx < Len(network_configuration_files)
               THEN idx' = idx + 1 /\ Goto("network_configuration_bind")
               ELSE idx' = 1 /\ Try(ok, "mkdir_put_old")
    /\ UNCHANGED <<reaped, exe, args, rejectable, squashfs_offset, unshared, loop_control, loop_device,
                   loop_device_path, dirs, warnings, root, put_old_at, cwd,
                   exec_call>>

(* main.rs:188, main.rs:88-97  pivot_rootfs_place_old_at_mnt_root(rootfs_dir) *)

put_old == Join(rootfs_dir, <<"mnt", "root">>)

MkdirPutOld ==
    /\ pc = "mkdir_put_old"
    /\ \E ok \in BOOLEAN :
        /\ mkdir(put_old, ok)
        /\ Try(ok, "pivot_root")
    /\ UNCHANGED <<reaped, exe, args, rejectable, squashfs_offset, unshared, private, loop_control, loop_device,
                   loop_device_path, mounts, hostMounts, warnings, idx, root,
                   put_old_at, cwd, exec_call>>

PivotRoot ==
    /\ pc = "pivot_root"
    /\ \E ok \in BOOLEAN :
        /\ ops' = Append(ops, SysOp("pivot_root", Some(put_old), rootfs_dir, None, {}, None, ok))
        /\ root' = IF ok THEN Some(rootfs_dir) ELSE root
        /\ put_old_at' = IF ok THEN Some(put_old) ELSE put_old_at
        /\ Try(ok, "chdir")
    /\ UNCHANGED <<reaped, exe, args, rejectable, squashfs_offset, unshared, private, loop_control, loop_device,
                   loop_device_path, mounts, hostMounts, dirs, warnings, idx, cwd, exec_call>>

Chdir ==
    /\ pc = "chdir"
    /\ \E ok \in BOOLEAN :
        /\ ops' = Append(ops, Call("chdir", <<"/", "root">>, ok))
        /\ cwd' = IF ok THEN Some(<<"/", "root">>) ELSE cwd
        /\ Try(ok, "exec_zsh")
    /\ UNCHANGED <<reaped, exe, args, rejectable, squashfs_offset, unshared, private, loop_control, loop_device,
                   loop_device_path, mounts, hostMounts, dirs, warnings, idx, root,
                   put_old_at, exec_call>>

(* main.rs:191, main.rs:99-116  exec_zsh() *)

\* std::env::args() panics on an argument that is not valid Unicode.
IsUnicode(arg) == \A i \in 1..Len(arg) : arg[i] < 128

\* main.rs:102: CString::new(arg).map_or(CString::default(), |res| res);
\* CString::new fails on an interior NUL byte.
ToCString(arg) == IF \E i \in 1..Len(arg) : arg[i] = 0 THEN <<>> ELSE arg

\* "zsh"
zsh == <<122, 115, 104>>
bin_zsh == <<"/", "bin", "zsh">>

\* The replacement of element 0 left out.
args_cstr_KeepArgv0(argv) == [i \in 1..Len(argv) |-> ToCString(argv[i])]

\* main.rs:101-111: the argument vector handed to execve.
args_cstr(argv) ==
    [i \in 1..Len(argv) |-> IF i = 1 THEN zsh ELSE ToCString(argv[i])]

\* main.rs:113: the environment handed to execve.
exec_env == <<>>

ExecZsh ==
    /\ pc = "exec_zsh"
    /\ \E ok \in BOOLEAN :
        IF (\E i \in 1..Len(args) : ~IsUnicode(args[i])) \/ Len(args) = 0
        THEN /\ Abort(ExitPanic)
             /\ UNCHANGED <<ops, exec_call>>
        ELSE /\ ops' = Append(ops, Call("execve", bin_zsh, ok))
             /\ exec_call' = Some([path |-> bin_zsh, argv |-> args_cstr(args),
                                   env |-> exec_env])
             /\ IF ok THEN Goto("replaced") ELSE Abort(ExitErr)
    /\ UNCHANGED <<reaped, exe, args, rejectable, squashfs_offset, unshared, private,
                   loop_control, loop_device, loop_device_path, mounts, hostMounts,
                   dirs, warnings, idx, root, put_old_at, cwd>>

(* main.rs:126-130, main.rs:193  the process exits without replacing itself *)

\* What the kernel leaves of a loop device when its last user is gone: the
\* binding to the backing file is cleared only on a device that was set up
\* with LO_FLAGS_AUTOCLEAR; the options of main.rs:70-74 do not set it.
Released(dev) ==
    IF IsSome(dev) /\ Unwrap(dev).attached /\ Unwrap(dev).autoclear
    THEN Some([attached |-> FALSE, file |-> None, offset |-> 0, read_only |-> FALSE,
               autoclear |-> FALSE])
    ELSE dev

\* The aborted process is reaped: its descriptors are closed and, when it had
\* its own mount namespace, the namespace is destroyed with every mount in
\* it and the directories on them.
ProcessExit ==
    /\ pc = "aborted"
    /\ ~reaped
    /\ reaped' = TRUE
    /\ mounts' = IF unshared THEN {} ELSE mounts
    /\ dirs' = IF unshared THEN {} ELSE dirs
    /\ loop_control' = FALSE
    /\ loop_device' = Released(loop_device)
    /\ UNCHANGED <<pc, exe, args, rejectable, squashfs_offset, unshared, private,
                   loop_device_path, hostMounts, ops, warnings, idx, root, put_old_at,
                   cwd, exec_call, exitCode>>

NextLocator ==
    \/ LocateImage
    \/ Unshare
    \/ MakePrivate
    \/ LoopControlOpen
    \/ NextFree
    \/ Attach
    \/ ProcessExit

SpecLocator == InitLocator /\ [][NextLocator]_vars

Next ==
    \/ LocateImage
    \/ Unshare
    \/ MakePrivate
    \/ LoopControlOpen
    \/ NextFree
    \/ Attach
    \/ LoopDevicePath
    \/ Tmpfs
    \/ CreateOverlayfsDirectories
    \/ Squashfs
    \/ Overlayfs
    \/ EssentialSystemFilesystems
    \/ NonEssentialSystemFilesystems
    \/ NetworkConfigurationBind
    \/ NetworkConfigurationRemount
    \/ MkdirPutOld
    \/ PivotRoot
    \/ Chdir
    \/ ExecZsh
    \/ ProcessExit

Spec == Init /\ [][Next]_vars

SpecReplacer == InitReplacer /\ [][Next]_vars

----------------------------------------------------------------------------
(* Vocabulary of the properties: classes of kernel operations in the log.  *)

merged == useless_dir \o <<"merged">>

IsMount(op) == op.call = "mount"
IsPropagationChange(op) == IsMount(op) /\ "MS_PRIVATE" \in op.flags
IsRemount(op) == IsMount(op) /\ "MS_REMOUNT" \in op.flags
\* a mount call that adds a mount to the table
CreatesMount(op) == IsMount(op) /\ ~IsPropagationChange(op) /\ ~IsRemount(op)
UnderMerged(path) == IsPrefix(merged, path) /\ path # merged

OptionalTypes ==
    {"mqueue", "cgroup2", "bpf", "configfs", "tracefs", "efivarfs", "securityfs",
     "pstore", "hugetlbfs", "binfmt_misc", "fusectl", "debugfs"}

BridgeFiles == { <<"etc", "resolv.conf">>, <<"etc", "hostname">>, <<"etc", "hosts">> }

IsOptionalMount(op) ==
    IsMount(op) /\ op.fstype # None /\ Unwrap(op.fstype) \in OptionalTypes
IsRequiredMount(op) ==
    /\ IsMount(op)
    /\ \/ op.fstype \in {Some("proc"), Some("sysfs"), Some("devpts")}
       \/ "MS_BIND" \in op.flags /\ op.source = Some(<<"/", "dev">>)
IsBridgeMount(op) ==
    IsMount(op) /\ "MS_BIND" \in op.flags /\ \E f \in BridgeFiles : op.target = merged \o f
IsEnvironmentMount(op) == IsRequiredMount(op) \/ IsOptionalMount(op) \/ IsBridgeMount(op)

\* The kind of a kernel operation: its call, and for mount what it asks for.
Kind(op) ==
    IF ~IsMount(op) THEN op.call
    ELSE IF IsPropagationChange(op) THEN "mount:propagation"
    ELSE IF IsRemount(op) THEN "mount:remount"
    ELSE IF "MS_BIND" \in op.flags THEN "mount:bind"
    ELSE "mount:new"

Key(op) == <<Kind(op), op.target>>

\* Position of an operation in the pipeline's order of stages (0: none).
Rank(op) ==
    IF IsMount(op)
    THEN CASE IsOptionalMount(op) -> 10
           [] IsBridgeMount(op) -> 11
           [] IsRequiredMount(op) -> 9
           [] IsPropagationChange(op) -> 3
           [] op.fstype = Some("tmpfs") -> 5
           [] op.fstype = Some("squashfs") -> 7
           [] op.fstype = Some("overlay") -> 8
           [] OTHER -> 0
    ELSE CASE op.call = "read" -> 1
           [] op.call = "unshare" -> 2
           [] op.call \in {"open", "loop_ctl_get_free", "loop_attach", "readlink"} -> 4
           [] op.call = "mkdir" /\ ~UnderMerged(op.target) -> 6
           [] op.call = "mkdir" /\ UnderMerged(op.target) -> 12
           [] op.call \in {"pivot_root", "chdir"} -> 12
           [] op.call = "execve" -> 13
           [] OTHER -> 0

\* Number of kernel operations of each position when it runs to its end.
StageSize == <<1, 1, 1, 4, 1, 4, 1, 1, 4, 12, 6, 3, 1>>

Last(q) == q[Len(q)]

NonZeroExit == IsSome(exitCode) /\ Unwrap(exitCode) # 0

HasSquashfsSection(file) ==
    \E i \in 1..Len(file) : file[i].name = Some(".squashfs")

----------------------------------------------------------------------------
(* C1.  The stages run in the fixed order image lookup, namespace         *)
(* isolation, loop-device attach, overlay assembly (tmpfs, directories,   *)
(* squashfs, overlay), environment wiring (required, optional, host       *)
(* bridge), root switch, exec: the log of kernel operations starts with   *)
(* the image lookup, never steps back or over a stage, a stage begins     *)
(* only when the one before it ran to its end, every operation before the *)
(* last one succeeded (an optional mount apart), and no operation, taken  *)
(* by kind and target, appears twice.                                     *)
C1_FixedOrderOneShot ==
    LET n == Len(ops)
        rank == <<>> \o [i \in 1..n |-> Rank(ops[i])]   \* as a sequence
    IN  /\ \A i \in 1..n : rank[i] >= 1
        /\ n >= 1 => rank[1] = 1
        /\ \A i \in 1..(n - 1) :
            /\ rank[i] <= rank[i + 1]
            /\ rank[i + 1] <= rank[i] + 1
            /\ ops[i].ok \/ IsOptionalMount(ops[i])
        /\ \A r \in 1..Len(StageSize) :
            (n >= 1 /\ rank[n] > r)    \* a later stage has begun: ranks never fall
              => Cardinality({i \in 1..n : rank[i] = r}) = StageSize[r]
        /\ Cardinality({Key(ops[i]) : i \in 1..n}) = n

\* The whole pipeline has run and the shell has replaced the process.
C1_Witness == pc = "replaced" /\ Len(ops) = 40

(* C2.  A fatal-class operation that fails is the last operation of the   *)
(* run: the process is then aborted with a non-zero exit status.  An      *)
(* aborted process always has a non-zero exit status, and no process      *)
(* exits with status 0; a process replaced by the shell has no exit       *)
(* status of its own.                                                     *)
C2_FatalFailureAborts ==
    /\ \A i \in 1..Len(ops) :
        ~ops[i].ok /\ ~IsOptionalMount(ops[i])
          => i = Len(ops) /\ pc = "aborted" /\ NonZeroExit
    /\ pc = "aborted" => NonZeroExit
    /\ IsSome(exitCode) => Unwrap(exitCode) # 0 /\ pc = "aborted"

\* The root switch failed, late in the run.
C2_Witness ==
    /\ pc = "aborted"
    /\ ops # <<>>
    /\ Last(ops).call = "pivot_root"
    /\ ~Last(ops).ok

(* C3.  Every operation that creates a mount, and the root switch, comes  *)
(* after a successful unshare and a successful private remount of /; as   *)
(* long as one of the two has not succeeded the mount table holds no      *)
(* mount of the pipeline.                                                 *)
C3_IsolatedBeforeMounts ==
    LET n == Len(ops)
        unshares == {j \in 1..n : ops[j].call = "unshare" /\ ops[j].ok}
        privates == {j \in 1..n : IsPropagationChange(ops[j]) /\ ops[j].ok}
    IN  /\ \A i \in 1..n :
            CreatesMount(ops[i]) \/ ops[i].call = "pivot_root"
              => /\ \E j \in unshares : j < i
                 /\ \E j \in privates : j < i
        /\ ~(unshared /\ private) => mounts \subseteq HostInitial

\* Mounts were created, and the root was switched.
C3_Witness ==
    /\ \E i \in 1..Len(ops) : ops[i].call = "pivot_root" /\ ops[i].ok
    /\ mounts # HostInitial

(* C4.  The mount table seen from the host's mount namespace is, in every *)
(* state of every run, the table it was before the run.                   *)
C4_HostMountsUnchanged == hostMounts = HostInitial

\* The run created mounts in its own namespace and then aborted.
C4_Witness ==
    /\ pc = "aborted"
    /\ Cardinality(mounts) > Cardinality(HostInitial) + 3

(* C5.  With no section named .squashfs in the executable the run issues  *)
(* nothing but the read of the executable and ends aborted with a         *)
(* non-zero exit status: no namespace, loop-device, mkdir or mount        *)
(* operation, and the host's state is the state at the start.             *)
C5_MissingSectionAbortsFirst ==
    ~HasSquashfsSection(exe) =>
        /\ \A i \in 1..Len(ops) : ops[i].call = "read"
        /\ Len(ops) <= 1
        /\ pc \in {"get_squashfs_section_address", "aborted"}
        /\ pc = "aborted" => NonZeroExit
        /\ ~unshared /\ ~private /\ ~loop_control
        /\ loop_device = None
        /\ dirs = {}
        /\ mounts = HostInitial /\ hostMounts = HostInitial

\* The executable was read without error, it has sections but not the
\* image, and the run is over.
C5_Witness ==
    /\ ~HasSquashfsSection(exe)
    /\ exe # <<>>
    /\ pc = "aborted"
    /\ ops # <<>> /\ Last(ops).ok

(* C6.  For an executable with exactly one section named .squashfs,       *)
(* stored at file offset k, the locator returns k and the loop device is  *)
(* attached at offset k; without such a section the locator returns       *)
(* not-found.                                                             *)
SquashfsSections(file) == {i \in 1..Len(file) : file[i].name = Some(".squashfs")}

C6_LocatorReturnsFileOffset ==
    LET at == SquashfsSections(exe)
    IN  /\ Cardinality(at) = 1 =>
            LET k == exe[CHOOSE i \in at : TRUE].sh_offset
            IN  /\ IsSome(squashfs_offset) => squashfs_offset = Some(k)
                /\ IsSome(loop_device) /\ Unwrap(loop_device).attached
                     => Unwrap(loop_device).offset = k
        /\ at = {} => squashfs_offset = None

(* C7.  Whichever optional mounts the kernel rejects, each of the twelve  *)
(* is attempted exactly once and in turn: after an attempt that is not    *)
(* the twelfth the next optional mount is due, after the twelfth the      *)
(* host-bridge mounts are due, whatever the outcomes; once a later        *)
(* operation has been issued every optional filesystem has exactly one    *)
(* attempt in the log; and a run never aborts on an optional mount.       *)
C7_BestEffortIndependence ==
    LET n == Len(ops)
        attempts == {i \in 1..n : IsOptionalMount(ops[i])}
        done == \E i \in 1..n : IsBridgeMount(ops[i]) \/ ops[i].call = "pivot_root"
    IN  /\ n >= 1 /\ IsOptionalMount(ops[n]) =>
            /\ pc # "aborted"
            /\ Cardinality(attempts) < Cardinality(OptionalTypes)
                 => pc = "non_essential_system_filesystems"
            /\ Cardinality(attempts) = Cardinality(OptionalTypes)
                 => pc = "network_configuration_bind"
        /\ \A t \in OptionalTypes :
            Cardinality({i \in attempts : ops[i].fstype = Some(t)})
              \in (IF done THEN {1} ELSE {0, 1})
        /\ Cardinality(attempts) <= Cardinality(OptionalTypes)

\* The kernel rejected all twelve and the run went through the host bridge
\* and the root switch to the shell.
C7_Witness ==
    /\ pc = "replaced"
    /\ Cardinality({i \in 1..Len(ops) : IsOptionalMount(ops[i]) /\ ~ops[i].ok})
         = Cardinality(OptionalTypes)

(* C8.  Every mount whose target lies under merged, and the pivot_root,   *)
(* comes after a successful overlay mount at merged; whenever pivot_root  *)
(* is due or has been issued, merged is a mount point (of the overlay),   *)
(* as long as the process and with it its namespace exist.                *)
C8_OverlayBeforeUse ==
    LET n == Len(ops)
        overlays == {j \in 1..n : /\ IsMount(ops[j])
                                  /\ ops[j].fstype = Some("overlay")
                                  /\ ops[j].target = merged
                                  /\ ops[j].ok}
    IN  /\ \A i \in 1..n :
            (IsMount(ops[i]) /\ UnderMerged(ops[i].target)) \/ ops[i].call = "pivot_root"
              => \E j \in overlays : j < i
        /\ ~reaped /\ (pc = "pivot_root" \/ \E i \in 1..n : ops[i].call = "pivot_root")
             => \E m \in mounts : m.target = merged /\ m.fstype = Some("overlay")

\* pivot_root has been attempted.
C8_Witness == \E i \in 1..Len(ops) : ops[i].call = "pivot_root"

(* C9.  Host bridge: the files are handled in the order /etc/resolv.conf, *)
(* /etc/hostname, /etc/hosts; each bind mount of the host file onto the   *)
(* same path under merged is followed at once by the read-only remount    *)
(* of that target; a failed bind or remount ends the run aborted; and     *)
(* while the root switch is due or under way all three targets are bind   *)
(* mounts of their host files, read-only.                                 *)
BridgeOrder == << <<"etc", "resolv.conf">>, <<"etc", "hostname">>, <<"etc", "hosts">> >>

C9_HostBridgeReadOnly ==
    LET n == Len(ops)
        bridge == SelectSeq(ops, IsBridgeMount)
    IN  /\ \A i \in 1..Len(bridge) :
            LET f == BridgeOrder[(i + 1) \div 2]
            IN  /\ bridge[i].target = merged \o f
                /\ i % 2 = 1 => /\ ~IsRemount(bridge[i])
                                /\ bridge[i].source = Some(<<"/">> \o f)
                /\ i % 2 = 0 => /\ IsRemount(bridge[i])
                                /\ "MS_RDONLY" \in bridge[i].flags
        /\ \A i \in 1..n :
            IsBridgeMount(ops[i]) /\ ~IsRemount(ops[i]) /\ ops[i].ok =>
                IF i = n THEN pc = "network_configuration_remount"
                ELSE IsRemount(ops[i + 1]) /\ ops[i + 1].target = ops[i].target
        /\ \A i \in 1..n :
            IsBridgeMount(ops[i]) /\ ~ops[i].ok => i = n /\ pc = "aborted"
        /\ pc \in {"mkdir_put_old", "pivot_root", "chdir"} =>
            \A f \in BridgeFiles :
                \E m \in mounts : /\ m.target = merged \o f
                                  /\ m.source = Some(<<"/">> \o f)
                                  /\ {"MS_BIND", "MS_RDONLY"} \subseteq m.flags

\* The root switch is being attempted after the host bridge.
C9_Witness == pc = "pivot_root"

----------------------------------------------------------------------------
(* C11.  After a successful root switch (pivot_root and the change of     *)
(* directory both succeeded) the old root is mounted at mnt/root inside   *)
(* the new root, the merged overlay directory is the process's root, and  *)
(* the working directory is the new root itself, "/".                     *)
C11_RootSwitched ==
    (\E i \in 1..Len(ops) : ops[i].call = "chdir" /\ ops[i].ok) =>
        /\ root = Some(merged)
        /\ put_old_at = Some(merged \o <<"mnt", "root">>)
        /\ cwd = Some(<<"/">>)

----------------------------------------------------------------------------
\* A run on an executable that carries the image, started with a non-empty
\* list of Unicode arguments, in which no kernel operation has failed.
HappyRun ==
    /\ get_squashfs_section_address(exe).val # None
    /\ Len(args) >= 1
    /\ \A i \in 1..Len(args) : IsUnicode(args[i])
    /\ \A i \in 1..Len(ops) : ops[i].ok

----------------------------------------------------------------------------
\* The value of an option in the data of a mount, <<>> when it is not given.
Option(data, key) ==
    IF data = None \/ ~\E j \in 1..Len(Unwrap(data)) : Unwrap(data)[j].key = key
    THEN <<>>
    ELSE LET j == CHOOSE j \in 1..Len(Unwrap(data)) : Unwrap(data)[j].key = key
         IN  Unwrap(data)[j].val

OverlayDirs == { <<"lower">>, <<"work">>, <<"upper">>, <<"merged">> }

(* C13.  Every mkdir of one of the four overlay directories comes after   *)
(* a successful tmpfs mount on the base directory; an overlay mount is    *)
(* issued only after all four directories were created under the base,    *)
(* on that tmpfs, and after the squashfs was mounted at base/lower; and   *)
(* the overlay mount's lowerdir, upperdir and workdir are base/lower,     *)
(* base/upper and base/work.                                              *)
C13_OverlayPreconditions ==
    LET base == useless_dir
        n == Len(ops)
        tmpfsOk == {i \in 1..n : IsMount(ops[i]) /\ ops[i].fstype = Some("tmpfs")
                                 /\ ops[i].target = base /\ ops[i].ok}
        squashfsOk == {i \in 1..n : IsMount(ops[i]) /\ ops[i].fstype = Some("squashfs")
                                    /\ ops[i].target = base \o <<"lower">> /\ ops[i].ok}
        mkdirs == {i \in 1..n : ops[i].call = "mkdir"
                                /\ \E d \in OverlayDirs : ops[i].target = base \o d}
        overlays == {i \in 1..n : IsMount(ops[i]) /\ ops[i].fstype = Some("overlay")}
        made == {j \in mkdirs : ops[j].ok}
    IN  /\ \A i \in mkdirs : \E t \in tmpfsOk : t < i
        /\ \A d \in dirs :
            (\E x \in OverlayDirs : d.path = base \o x) =>
                d.on.fstype = Some("tmpfs") /\ d.on.target = base
        /\ \A i \in overlays :
            /\ \A d \in OverlayDirs :
                \E j \in made : j < i /\ ops[j].target = base \o d
            /\ \E s \in squashfsOk : s < i
            /\ Option(ops[i].data, "lowerdir") = base \o <<"lower">>
            /\ Option(ops[i].data, "upperdir") = base \o <<"upper">>
            /\ Option(ops[i].data, "workdir") = base \o <<"work">>

\* An overlay mount has been issued.
C13_Witness ==
    /\ Len(ops) > 0
    /\ IsMount(Last(ops)) /\ Last(ops).fstype = Some("overlay")
    /\ Cardinality(dirs) = 4

----------------------------------------------------------------------------
(* C14.  Every directory the pipeline creates is one of lower, work,      *)
(* upper, merged and mnt/root, and lies on a memory-backed mount that     *)
(* is in the private namespace only: the tmpfs, or the overlay whose      *)
(* upper directory is on that tmpfs; never on a mount of the host.  No    *)
(* mkdir is issued before the tmpfs mount succeeded, and the mkdir of     *)
(* mnt/root only after the overlay mount succeeded.                       *)
C14_DirectoriesInMemory ==
    LET n == Len(ops)
        mkdirs == {i \in 1..n : ops[i].call = "mkdir"}
        tmpfsOk == {i \in 1..n : IsMount(ops[i]) /\ ops[i].fstype = Some("tmpfs")
                                 /\ ops[i].ok}
        overlayOk == {i \in 1..n : IsMount(ops[i]) /\ ops[i].fstype = Some("overlay")
                                   /\ ops[i].ok}
    IN  /\ \A d \in dirs :
            /\ d.path \in {useless_dir \o x : x \in OverlayDirs}
                          \cup {merged \o <<"mnt", "root">>}
            /\ d.on \notin HostInitial
            /\ d.on \notin hostMounts
            /\ unshared /\ private
            /\ \/ d.on.fstype = Some("tmpfs")
               \/ /\ d.on.fstype = Some("overlay")
                  /\ CoveringMount(mounts, Option(d.on.data, "upperdir")).fstype
                        = Some("tmpfs")
        /\ \A i \in mkdirs : \E t \in tmpfsOk : t < i
        /\ \A i \in mkdirs :
            ops[i].target = merged \o <<"mnt", "root">> => \E o \in overlayOk : o < i

\* All five directories have been created.
C14_Witness ==
    /\ Cardinality(dirs) = 5
    /\ \E d \in dirs : d.path = merged \o <<"mnt", "root">> /\ d.on.fstype = Some("overlay")

----------------------------------------------------------------------------
(* C15.  The image is never writable: whenever the loop device is         *)
(* attached it is read-only, bound to the executable at the offset the    *)
(* image lookup returned; every squashfs mount is issued read-only, on    *)
(* base/lower, from that loop device; and the only writable layer of an   *)
(* overlay mount is its upperdir base/upper, which lies on the tmpfs,     *)
(* while its lowerdir is the read-only squashfs mount.                    *)
C15_ImageNeverWritable ==
    LET lower == useless_dir \o <<"lower">>
        upper == useless_dir \o <<"upper">>
    IN  /\ IsSome(loop_device) /\ Unwrap(loop_device).attached =>
            /\ Unwrap(loop_device).read_only
            /\ Unwrap(loop_device).file = Some(self_exe)
            /\ IsSome(squashfs_offset)
            /\ Unwrap(loop_device).offset = Unwrap(squashfs_offset)
        /\ \A i \in 1..Len(ops) :
            IsMount(ops[i]) /\ ops[i].fstype = Some("squashfs") =>
                /\ "MS_RDONLY" \in ops[i].flags
                /\ ops[i].target = lower
                /\ ops[i].source = loop_device_path
                /\ IsSome(loop_device) /\ Unwrap(loop_device).attached
        /\ \A m \in mounts :
            /\ m.fstype = Some("squashfs") => "MS_RDONLY" \in m.flags
            /\ m.fstype = Some("overlay") =>
                /\ Option(m.data, "upperdir") = upper
                /\ CoveringMount(mounts, upper).fstype = Some("tmpfs")
                /\ Option(m.data, "lowerdir") = lower
                /\ CoveringMount(mounts, lower).fstype = Some("squashfs")
                /\ "MS_RDONLY" \in CoveringMount(mounts, lower).flags
        /\ \A m \in mounts :
            IsPrefix(lower, m.target) => m.fstype = Some("squashfs")

\* The overlay is mounted over the attached image.
C15_Witness ==
    /\ IsSome(loop_device) /\ Unwrap(loop_device).attached
    /\ \E m \in mounts : m.fstype = Some("squashfs")
    /\ \E m \in mounts : m.fstype = Some("overlay")

----------------------------------------------------------------------------
(* C16.  A run claims at most one loop-device slot: none before a         *)
(* successful attach, exactly one from then on; the program never         *)
(* detaches it itself; and once a process that aborted after the attach   *)
(* has exited, the slot is no longer bound to the executable.             *)
C16_LoopSlotReclaimed ==
    LET n == Len(ops)
        attaches == {i \in 1..n : ops[i].call = "loop_attach" /\ ops[i].ok}
        bound == /\ IsSome(loop_device)
                 /\ Unwrap(loop_device).attached
                 /\ Unwrap(loop_device).file = Some(self_exe)
    IN  /\ Cardinality(attaches) <= 1
        /\ attaches = {} => ~bound
        /\ attaches # {} /\ ~reaped => bound
        /\ \A i \in 1..n : ops[i].call # "loop_detach"
        /\ attaches # {} /\ pc = "aborted" /\ reaped => ~bound

----------------------------------------------------------------------------
(* C17.  For every mount the pipeline issues (tmpfs base, lower, merged,  *)
(* the four required, the twelve optional and the three host-bridge       *)
(* targets) the target directory was created by the pipeline, by a        *)
(* successful mkdir, before the mount is attempted.                       *)
C17_TargetsCreatedByPipeline ==
    LET n == Len(ops)
        mkdirs == {j \in 1..n : ops[j].call = "mkdir" /\ ops[j].ok}
    IN  \A i \in 1..n :
            CreatesMount(ops[i]) =>
                \E j \in mkdirs : j < i /\ ops[j].target = ops[i].target

(* C17, amended.  The pipeline creates the target of a mount before the   *)
(* mount is attempted exactly for the squashfs mount at base/lower and    *)
(* the overlay mount at base/merged; the targets of every other mount     *)
(* (the tmpfs base, the four required, the twelve optional and the three  *)
(* host-bridge targets) are never created by the pipeline.                *)
C17_OnlyOverlayTargetsCreated ==
    LET n == Len(ops)
        mkdirs == {j \in 1..n : ops[j].call = "mkdir" /\ ops[j].ok}
        created == {useless_dir \o <<"lower">>, merged}
    IN  \A i \in 1..n :
            CreatesMount(ops[i]) =>
                IF ops[i].target \in created
                THEN \E j \in mkdirs : j < i /\ ops[j].target = ops[i].target
                ELSE \A j \in mkdirs : ops[j].target # ops[i].target

\* Every mount of the pipeline has been issued.
C17_Witness ==
    /\ pc = "mkdir_put_old"
    /\ Cardinality({i \in 1..Len(ops) : CreatesMount(ops[i])}) = 3 + 4 + 12 + 3

----------------------------------------------------------------------------
(* C18.  The warnings are, in order, one for each optional mount that    *)
(* failed, naming its filesystem type and its target path; no optional    *)
(* filesystem is attempted twice, so a failed mount has exactly one       *)
(* warning and a mount that succeeded has none; and when the root switch  *)
(* is due or under way, a filesystem whose mount failed is not in the     *)
(* mount table of the new root while one whose mount succeeded is.        *)
C18_FailedOptionalWarned ==
    LET n == Len(ops)
        Failed(op) == IsOptionalMount(op) /\ ~op.ok
        failed == SelectSeq(ops, Failed)
        attempts == {i \in 1..n : IsOptionalMount(ops[i])}
    IN  /\ Len(warnings) = Len(failed)
        /\ \A k \in 1..Len(failed) :
            /\ warnings[k].fstype = Unwrap(failed[k].fstype)
            /\ warnings[k].mountpoint = failed[k].target
        /\ Cardinality({ops[i].fstype : i \in attempts}) = Cardinality(attempts)
        /\ ~reaped /\ pc \in {"mkdir_put_old", "pivot_root", "chdir"} =>
            \A i \in attempts :
                ops[i].ok <=> \E m \in mounts : /\ m.fstype = ops[i].fstype
                                                /\ m.target = ops[i].target
                                                /\ UnderMerged(m.target)

\* The root is being switched after some optional mounts failed and others
\* succeeded.
C18_Witness ==
    /\ pc = "pivot_root"
    /\ Len(warnings) \in 1..11
    /\ \E w \in 1..Len(warnings) : warnings[w].fstype = "cgroup2"

----------------------------------------------------------------------------
\* The filesystem types of the required and optional mounts in the order of
\* environment wiring (None: the bind mount of /dev).
EnvironmentOrder ==
    << Some("proc"), Some("sysfs"), None, Some("devpts"),
       Some("mqueue"), Some("cgroup2"), Some("bpf"), Some("configfs"),
       Some("tracefs"), Some("efivarfs"), Some("securityfs"), Some("pstore"),
       Some("hugetlbfs"), Some("binfmt_misc"), Some("fusectl"), Some("debugfs") >>

(* C19.  Environment wiring mounts proc, sysfs, the bind of /dev and      *)
(* devpts at dev/pts, then the twelve optional filesystems in list        *)
(* order, then the host bridge.  So an optional mount is attempted only   *)
(* after all four required mounts succeeded, and its target lies beneath  *)
(* the target of a required mount that succeeded (dev, sys or proc of     *)
(* the new root); devpts is never mounted before the bind of /dev         *)
(* succeeded; and a host-bridge mount comes after all twelve optional     *)
(* attempts.                                                              *)
C19_EnvironmentOrder ==
    LET n == Len(ops)
        class == <<>> \o [i \in 1..n |->
                    IF ~IsMount(ops[i]) THEN "other"
                    ELSE IF IsOptionalMount(ops[i]) THEN "optional"
                    ELSE IF IsRequiredMount(ops[i]) THEN "required"
                    ELSE IF IsBridgeMount(ops[i]) THEN "bridge"
                    ELSE "other"]
        InOrder(i) == class[i] \in {"required", "optional"}
        env == SelectSeq(<<>> \o [i \in 1..n |-> i], InOrder)
        required == {j \in 1..n : class[j] = "required" /\ ops[j].ok}
        optional == {i \in 1..n : class[i] = "optional"}
        bridge == {i \in 1..n : class[i] = "bridge"}
        devBind == {j \in required : ops[j].target = merged \o <<"dev">>}
        tops == {j \in required : ops[j].target \in {merged \o <<"dev">>,
                                                     merged \o <<"sys">>,
                                                     merged \o <<"proc">>}}
    IN  /\ Len(env) <= Len(EnvironmentOrder)
        /\ \A k \in 1..Len(env) : ops[env[k]].fstype = EnvironmentOrder[k]
        /\ optional # {} => Cardinality(required) = 4
        /\ \A i \in optional :
            /\ \A j \in required : j < i
            /\ \E j \in tops :
                /\ IsPrefix(ops[j].target, ops[i].target)
                /\ ops[j].target # ops[i].target
        /\ \A i \in 1..n :
            class[i] = "required" /\ ops[i].fstype = Some("devpts") =>
                /\ ops[i].target = merged \o <<"dev", "pts">>
                /\ \E j \in devBind : j < i
        /\ bridge # {} => Cardinality(optional) = Cardinality(OptionalTypes)
        /\ \A i \in bridge : \A j \in optional : j < i

\* The host bridge is due after the required and the optional mounts.
C19_Witness ==
    /\ pc = "network_configuration_bind"
    /\ Cardinality({i \in 1..Len(ops) : IsOptionalMount(ops[i])}) = 12
    /\ Cardinality({i \in 1..Len(ops) : IsRequiredMount(ops[i]) /\ ops[i].ok}) = 4

====
